---- MODULE Spec2Model ----
(***************************************************************************)
(* Carrom Arena: the match engine of GameService (src/unnamed/part_001).   *)
(*                                                                         *)
(* One match is followed from createGame to settlement.  Every public      *)
(* method of GameService is an async function: the code between two        *)
(* awaits runs atomically, and at every await another handler may run.     *)
(* A handler invocation is a "call" occupying one of two slots; its steps  *)
(* are the stretches of code between the awaits that touch shared state    *)
(* (the stored game, the wallets).                                         *)
(*                                                                         *)
(* The persistence methods (storeGame, updateGame, getGameById) and the    *)
(* wallet methods (lockPlayerStake, releaseAllStakes, transferPrize) are   *)
(* empty in the source ("implement based on your system"); they are        *)
(* modelled from the specification: the store keeps one snapshot of the    *)
(* game, a read returns a private copy, an update overwrites the snapshot; *)
(* the wallet is the ledger of lock / release / credit.                    *)
(*                                                                         *)
(* Two further parts follow the match engine: the security middleware      *)
(* stack of src/unnamed/part_001 (SpecStack) and registerUser / verifyOTP  *)
(* of AuthService, src/unnamed/part_004 (SpecAuth).  Each part leaves the  *)
(* variables of the others unchanged.                                      *)
(***************************************************************************)
EXTENDS Integers, Sequences, FiniteSets, TLC

VARIABLES
  store,       \* the stored game (the games table row), NoGame before creation
  maxPlayers,  \* gameData.maxPlayers given to createGame (not kept in Game)
  available,   \* wallet: available balance per user
  locked,      \* wallet: locked balance per user
  lock,        \* wallet: state of the user's stake lock for this match
  ledger,      \* wallet: totals of the ledger entries written for this match
  timers,      \* pending setTimeout(startGame) countdown timers
  call,        \* the handler invocations in flight, per slot
  calls,       \* handler invocations begun so far
  result,      \* what the handler that ended last returned or threw
  now,         \* Date.now(), in milliseconds
  rl,          \* Redis: the rate_limit entry of one client and path
  rlGrants,    \* per window (by its reset time): requests the limiter let pass
  fraud,       \* Redis: the fraud metrics of the client
  alerts,      \* Redis: fraud_alert entries written
  req,         \* the requests inside the security stack, per slot
  reqs,        \* requests begun so far
  reply,       \* what the security stack returned for the request that ended last
  date,        \* new Date(), in minutes
  sessions,    \* the OTP sessions stored, per session id
  accounts,    \* what registerUser left behind: temporary users, OTPs sent
  auth,        \* the AuthService invocations in flight, per slot
  authCalls,   \* AuthService invocations begun so far
  authResult,  \* what the AuthService method that ended last returned or threw
  wrongCompared, \* per session: wrong codes compared with the stored OTP so far
  schema,      \* the database: the migrations table, its rows, the tables created
  applied,     \* per migration: how often its function has run to completion
  migrator,    \* runMigrations in flight: where it is, at which migration
  migRuns,     \* runs of runMigrations begun so far
  migResult,   \* how the run of runMigrations that ended last ended
  tx,          \* the calls of DatabaseOperations.transaction in flight, per slot
  txCount,     \* calls of transaction begun so far
  txResult,    \* the call of transaction that ended last: what it did
  pool,        \* the connection pool: clients checked out
  login,       \* the calls of AuthService.loginUser in flight, per slot
  loginCalls,  \* calls of loginUser begun so far
  loginResult, \* the call of loginUser that ended last: its input and outcome
  issued,      \* tokens generated, sessions created, last-login times written
  gate,        \* the call of the AuthMiddleware middleware in flight
  gateCalls,   \* calls of the middleware begun so far
  gateResult,  \* the call that ended last: options, request and what it returned
  userRecord,  \* the user's record in the database of UserModel
  userCall,    \* the call of UserModel in flight
  userCalls    \* calls of UserModel begun so far

\* the security middleware (RateLimiter, FraudDetectionMiddleware, the stack)
stackVars == <<now, rl, rlGrants, fraud, alerts, req, reqs, reply>>

\* AuthService (registerUser, verifyOTP)
authVars == <<date, sessions, accounts, auth, authCalls, authResult, wrongCompared>>

\* MigrationRunner and DatabaseOperations (src/database.ts)
migVars == <<schema, applied, migrator, migRuns, migResult>>
txVars == <<tx, txCount, txResult, pool>>
dbVars == <<migVars, txVars>>

\* AuthService.loginUser
loginVars == <<login, loginCalls, loginResult, issued>>

\* AuthMiddleware.createMiddleware
gateVars == <<gate, gateCalls, gateResult>>

\* UserModel
userVars == <<userRecord, userCall, userCalls>>

\* what GameService never touches
others == <<stackVars, authVars, dbVars, loginVars, gateVars, userVars>>

\* what GameService works on
gameVars == <<store, maxPlayers, available, locked, lock, ledger, timers, call,
              calls, result>>

vars == <<store, maxPlayers, available, locked, lock, ledger, timers, call, calls,
          result, others>>

\* what the security middleware never touches, and what AuthService never
\* touches
stackOthers == <<gameVars, authVars, dbVars, loginVars, gateVars, userVars>>
authOthers == <<gameVars, stackVars, dbVars, loginVars, gateVars, userVars>>
dbOthers == <<gameVars, stackVars, authVars, loginVars, gateVars, userVars>>
loginOthers == <<gameVars, stackVars, authVars, dbVars, gateVars, userVars>>
gateOthers == <<gameVars, stackVars, authVars, dbVars, loginVars, userVars>>
userOthers == <<gameVars, stackVars, authVars, dbVars, loginVars, gateVars>>

----------------------------------------------------------------------------
(* Bounds of the model *)

\* handler invocations that get past their first check
MaxCalls == 4

Users == {"A", "B"}
Hosts == {"A"}
Slots == {1, 2}
InitBalance == [u \in Users |-> 500]
StakeInputs == {9, 10, 100, 2000, 2001}
MaxPlayersInputs == {2, 4}

\* the clock: Date.now() is read at multiples of TickMs (a tick takes the
\* clock past a window of the rate limiter and past the minute of the fraud
\* counters)
TickMs == 60001
MaxTicks == 1
Times == {k * TickMs : k \in 0..MaxTicks}

\* the RateLimitConfig given to RateLimiter.createMiddleware
windowMs == 60000
maxRequests == 2
ResetTimes == {t + windowMs : t \in Times}

\* requests that enter the security stack
MaxReqs == 3

\* the clock of AuthService: new Date() is read at multiples of DateStep
DateStep == 3
MaxDateSteps == 2

\* AuthService invocations
MaxAuthCalls == 5

\* runs of runMigrations (one per start of the server)
MaxRuns == 8

\* calls of DatabaseOperations.transaction
MaxTx == 3

\* calls of AuthService.loginUser
MaxLogins == 2

\* calls of the AuthMiddleware middleware
MaxGateCalls == 2

\* calls of UserModel
MaxUserCalls == 4

\* the session ids generateSessionId gives to the one registration followed
SessionIds == {"sms", "email"}

\* the codes generateOTP produces and clients submit
Otps == {"111111", "222222"}

\* the mobile numbers and e-mail addresses submitted; the first of each
\* belongs to a user already
Mobiles == {"9000000001", "9000000002"}
Emails == {"a@x.in", "b@x.in"}
ExistingMobiles == {"9000000001"}
ExistingEmails == {"a@x.in"}

\* the fraud metrics found in Redis when the first request arrives
FraudFound ==
  {[requestCount |-> 100, failedAttempts |-> 11]}

----------------------------------------------------------------------------
(* Program constants *)

MinStake == 10
MaxStake == 2000
MinTablePlayers == 2
MaxTablePlayers == 4
ServerFeePercent == 5
WinnerSharePercent == 90
ReadyPlayers == 2
suspiciousThreshold == 70

----------------------------------------------------------------------------
(* Pure functions of GameService *)

NoGame ==
  [status |-> "NONE", players |-> <<>>, stakeAmount |-> 0, prizePool |-> 0,
   currentPlayer |-> "", turnNumber |-> 0, gamePhase |-> "", board |-> "",
   winner |-> "", moves |-> <<>>]

Idle == [op |-> "idle", pc |-> "", player |-> "", onTurn |-> FALSE, game |-> NoGame]

\* the stake bounds taken as exclusive
validateGameCreation_Exclusive(stakeAmount, playerCount) ==
  /\ stakeAmount > MinStake /\ stakeAmount < MaxStake
  /\ playerCount >= MinTablePlayers /\ playerCount <= MaxTablePlayers

\* z.number().min(10).max(2000), z.number().min(2).max(4)
validateGameCreation(stakeAmount, playerCount) ==
  /\ stakeAmount >= MinStake /\ stakeAmount <= MaxStake
  /\ playerCount >= MinTablePlayers /\ playerCount <= MaxTablePlayers

\* the pool without the server fee
calculatePrizePool_NoFee(stakeAmount, playerCount) ==
  stakeAmount * playerCount

\* Math.floor(totalStakes - totalStakes * 0.05), on integer stakes
calculatePrizePool(stakeAmount, playerCount) ==
  LET totalStakes == stakeAmount * playerCount
      \* totalStakes * 0.05, rounded up: floor(t - f) = t - ceil(f)
      serverFee   == (totalStakes * ServerFeePercent + 99) \div 100
  IN  totalStakes - serverFee

\* the winner is paid the whole pool
calculatePrizeDistribution_WholePool(game) ==
  <<[playerId |-> game.winner, amount |-> game.prizePool]>>

\* [{ playerId: game.winner, amount: Math.floor(game.prizePool * 0.9) }]
calculatePrizeDistribution(game) ==
  <<[playerId |-> game.winner,
     amount   |-> (game.prizePool * WinnerSharePercent) \div 100]>>

createInitialGameState(game) ==
  [game EXCEPT !.currentPlayer = "", !.turnNumber = 1,
               !.board = "blank", !.gamePhase = "PLACEMENT"]

checkPlayerEligibility(playerId, amount) == TRUE

canPlayerJoinGame(game, playerId) == TRUE

isGameReadyToStart(game) == Len(game.players) >= ReadyPlayers

canStartGame(game) ==
  game.status = "WAITING" /\ Len(game.players) >= ReadyPlayers

determineFirstPlayer(players) == players[1]

validateMove(game, playerId) == TRUE

\* the turn passed two seats on
getNextPlayer_SkipsOne(players, currentPlayerId) ==
  LET hits == {i \in 1..Len(players) : players[i] = currentPlayerId}
      currentIndex == IF hits = {} THEN -1
                      ELSE (CHOOSE i \in hits : \A j \in hits : i <= j) - 1
  IN  players[((currentIndex + 2) % Len(players)) + 1]

\* players.findIndex(...) is -1 for a stranger: players[(−1 + 1) % n]
getNextPlayer(players, currentPlayerId) ==
  LET hits == {i \in 1..Len(players) : players[i] = currentPlayerId}
      currentIndex == IF hits = {} THEN -1
                      ELSE (CHOOSE i \in hits : \A j \in hits : i <= j) - 1
  IN  players[((currentIndex + 1) % Len(players)) + 1]

\* the outcomes checkWinCondition may report for a move: no winner, or, on a
\* board that has been set up, one of the participants
checkWinCondition(game) ==
  {[hasWinner |-> FALSE, winner |-> ""]}
    \cup {[hasWinner |-> TRUE, winner |-> game.players[i]] :
            i \in {j \in 1..Len(game.players) : game.board = "setup"}}

----------------------------------------------------------------------------
(* Store and wallet collaborators *)

getGameById == store

lockSucceeds(u, amount) == lock[u] # "none" \/ available[u] >= amount

\* lock(userId, matchId, amount): idempotent per (userId, matchId)
lockPlayerStake(u, amount) ==
  IF lock[u] # "none"
  THEN UNCHANGED <<available, locked, lock, ledger>>
  ELSE /\ available' = [available EXCEPT ![u] = @ - amount]
       /\ locked' = [locked EXCEPT ![u] = @ + amount]
       /\ lock' = [lock EXCEPT ![u] = "held"]
       /\ ledger' = [ledger EXCEPT !.lockedTotal = @ + amount]

RECURSIVE SumOver(_, _)
SumOver(f, S) ==
  IF S = {} THEN 0
  ELSE LET x == CHOOSE y \in S : TRUE IN f[x] + SumOver(f, S \ {x})

\* a release that credits the available balance and leaves the locked one
releaseAllStakes_KeepsLocked ==
  LET held == {u \in Users : lock[u] = "held"} IN
  /\ available' = [u \in Users |->
                     IF u \in held THEN available[u] + locked[u] ELSE available[u]]
  /\ lock' = [u \in Users |-> IF u \in held THEN "released" ELSE lock[u]]
  /\ ledger' = [ledger EXCEPT !.releasedTotal = @ + SumOver(locked, held)]
  /\ UNCHANGED locked

\* release(userId, matchId) for every lock held for the match
releaseAllStakes ==
  LET held == {u \in Users : lock[u] = "held"} IN
  /\ available' = [u \in Users |->
                     IF u \in held THEN available[u] + locked[u] ELSE available[u]]
  /\ locked' = [u \in Users |-> IF u \in held THEN 0 ELSE locked[u]]
  /\ lock' = [u \in Users |-> IF u \in held THEN "released" ELSE lock[u]]
  /\ ledger' = [ledger EXCEPT !.releasedTotal = @ + SumOver(locked, held)]

\* credit(userId, amount, reason)
transferPrize(playerId, amount) ==
  /\ available' = [available EXCEPT ![playerId] = @ + amount]
  /\ ledger' = [ledger EXCEPT !.payoutCount = @ + 1, !.payoutTotal = @ + amount,
                              !.credited[playerId] = @ + amount]
  /\ UNCHANGED <<locked, lock>>

----------------------------------------------------------------------------
(* Handler invocations *)

\* a new invocation takes the lowest free slot
Begin(c) ==
  /\ calls < MaxCalls
  /\ call[c].op = "idle"
  /\ \A d \in Slots : d < c => call[d].op # "idle"

\* a countdown timer that fires takes the lowest free slot
BeginTimer(c) ==
  /\ timers > 0
  /\ call[c].op = "idle"
  /\ \A d \in Slots : d < c => call[d].op # "idle"

\* the handler in slot c returns (ok) or throws (error)
Finish(c, ok, error) ==
  /\ call' = [call EXCEPT ![c] = Idle]
  /\ result' = [op |-> call[c].op, player |-> call[c].player,
                ok |-> ok, error |-> error]

\* a handler throws at its first check, before it has changed anything
Reject(op, player, error) ==
  /\ result' = [op |-> op, player |-> player, ok |-> FALSE, error |-> error]
  /\ UNCHANGED <<store, maxPlayers, available, locked, lock, ledger, timers,
                 call, calls, others>>

\* Redis has no entry under the key
NoEntry == [count |-> 0, resetTime |-> 0]

NoMetrics == [requestCount |-> 0, failedAttempts |-> 0, lastActivity |-> 0,
              stored |-> FALSE]

IdleReq == [stage |-> "idle", ran |-> <<>>, current |-> NoEntry,
            metrics |-> NoMetrics, score |-> 0, failed |-> {}]

NoReply == [status |-> 0, by |-> "", ran |-> <<>>]

\* the security stack before its first request, Redis empty
StackQuiet ==
  /\ now = 0
  /\ rl = NoEntry
  /\ rlGrants = [t \in ResetTimes |-> 0]
  /\ fraud = NoMetrics
  /\ alerts = 0
  /\ req = [r \in Slots |-> IdleReq]
  /\ reqs = 0
  /\ reply = NoReply

GameInit ==
  /\ store = NoGame
  /\ maxPlayers = 0
  /\ available = InitBalance
  /\ locked = [u \in Users |-> 0]
  /\ lock = [u \in Users |-> "none"]
  /\ ledger = [lockedTotal |-> 0, releasedTotal |-> 0,
               payoutCount |-> 0, payoutTotal |-> 0,
               credited |-> [u \in Users |-> 0]]
  /\ timers = 0
  /\ calls = 0
  /\ call = [c \in Slots |-> Idle]
  /\ result = [op |-> "", player |-> "", ok |-> TRUE, error |-> ""]

\* no OTP session (getOTPSession returns null)
NoSession == [exists |-> FALSE, otp |-> "", expiresAt |-> 0, attempts |-> 0,
              verified |-> FALSE]

IdleAuth == [op |-> "idle", pc |-> "", sessionId |-> "", otp |-> "",
             mobile |-> "", email |-> "", done |-> {}]

\* AuthService before its first call
AuthQuiet ==
  /\ date = 0
  /\ sessions = [id \in SessionIds |-> NoSession]
  /\ accounts = [tempUsers |-> 0, otpSent |-> 0]
  /\ auth = [c \in Slots |-> IdleAuth]
  /\ authCalls = 0
  /\ authResult = [call |-> 0, op |-> "", sessionId |-> "", otp |-> "",
                   mobile |-> "", email |-> "", ok |-> TRUE, error |-> ""]
  /\ wrongCompared = [id \in SessionIds |-> 0]

\* the migrations of runMigrations, in the order of its list
Migrations ==
  <<"createUsersTable", "createGamesTable", "createWalletTransactionsTable",
    "createGameMovesTable", "createAchievementsTable", "addIndexes">>

MigrationNames == {Migrations[i] : i \in 1..Len(Migrations)}

IdleMigrator == [pc |-> "idle", index |-> 0]

\* a call of transaction: where it is, the statements it has sent on its
\* client, how the operations callback ended, whether an error is to be
\* rethrown, how often the client was released
IdleTx == [pc |-> "idle", log |-> <<>>, callback |-> "", threw |-> FALSE,
           released |-> 0]

\* an empty database, no run of runMigrations yet
DbQuiet ==
  /\ schema = [migrationsTable |-> FALSE, recorded |-> {}, tables |-> {}]
  /\ applied = [m \in MigrationNames |-> 0]
  /\ migrator = IdleMigrator
  /\ migRuns = 0
  /\ migResult = [ok |-> TRUE, error |-> "", at |-> ""]
  /\ tx = [c \in Slots |-> IdleTx]
  /\ txCount = 0
  /\ txResult = IdleTx
  /\ pool = 0

\* findUserByIdentifier returns null
NoUser == [found |-> FALSE, isActive |-> FALSE, isVerified |-> FALSE,
           twoFactorEnabled |-> FALSE]

IdleLogin == [pc |-> "idle", user |-> NoUser, password |-> "",
              twoFactorCode |-> "", made |-> 0]

\* nobody has logged in
LoginQuiet ==
  /\ login = [c \in Slots |-> IdleLogin]
  /\ loginCalls = 0
  /\ loginResult = [call |-> 0, input |-> IdleLogin, ok |-> TRUE, error |-> ""]
  /\ issued = [tokens |-> 0, sessions |-> 0, lastLogins |-> 0]

\* the options given to AuthMiddleware.createMiddleware (userTypes may be
\* left out) and what the middleware reads of a request: the authorization
\* header, whether verifyAccessToken accepts the token, whether Redis holds
\* the session, the userType of the token's payload
UserTypes == {"PLAYER", "DEVELOPER"}
AuthOptions ==
  [required : BOOLEAN, userTypesGiven : BOOLEAN, userTypes : SUBSET UserTypes]
Credentials ==
  [header : {"none", "bearer"}, tokenValid : BOOLEAN, session : BOOLEAN,
   userType : UserTypes]

NoOptions == [required |-> FALSE, userTypesGiven |-> FALSE, userTypes |-> {}]
NoCredential == [header |-> "none", tokenValid |-> FALSE, session |-> FALSE,
                 userType |-> "PLAYER"]

IdleGate == [pc |-> "idle", options |-> NoOptions, credential |-> NoCredential,
             returned |-> ""]

\* no request has come to the middleware
GateQuiet ==
  /\ gate = IdleGate
  /\ gateCalls = 0
  /\ gateResult = IdleGate

\* the addresses and numbers a user may have; "" in the data of an update
\* is a field left out
UserEmails == {"a@x.in", "b@x.in"}
UserMobiles == {"9000000001", "9000000002"}

\* the skillRatingChange and won of a game result
RatingChanges == {-1200, -400, 400, 2000}
GameResults == [won : BOOLEAN, skillRatingChange : RatingChanges]

\* the record UserModel.create saves: the defaults of UserSchema
NewUser ==
  [email |-> "a@x.in", mobile |-> "9000000001", emailVerified |-> FALSE,
   mobileVerified |-> FALSE, isVerified |-> FALSE, skillLevel |-> "BEGINNER",
   skillRating |-> 1200, level |-> 1, experience |-> 0]

IdleUserCall == [pc |-> "idle", updates |-> <<>>]

\* the user has been created and no call is in flight
UserQuiet ==
  /\ userRecord = NewUser
  /\ userCall = IdleUserCall
  /\ userCalls = 0

Init ==
  /\ GameInit
  /\ StackQuiet
  /\ AuthQuiet
  /\ DbQuiet
  /\ LoginQuiet
  /\ GateQuiet
  /\ UserQuiet

(* createGame, lines 102-148: validation fails, nothing is created *)
createGameRejected(c) ==
  \E hostId \in Hosts, stakeAmount \in StakeInputs, n \in MaxPlayersInputs :
    /\ Begin(c)
    /\ store.status = "NONE"
    /\ ~validateGameCreation(stakeAmount, n)
    /\ Reject("create", hostId, "ValidationError")

(* createGame, lines 102-148: the game with the host in it is stored *)
createGame(c) ==
  \E hostId \in Hosts, stakeAmount \in StakeInputs, n \in MaxPlayersInputs :
    LET game == [createInitialGameState(NoGame) EXCEPT
                   !.status = "WAITING",
                   !.players = <<hostId>>,
                   !.stakeAmount = stakeAmount,
                   !.prizePool = calculatePrizePool(stakeAmount, n)]
    IN
    /\ Begin(c)
    /\ store.status = "NONE"
    /\ validateGameCreation(stakeAmount, n)
    /\ checkPlayerEligibility(hostId, stakeAmount)
    /\ store' = game
    /\ maxPlayers' = n
    /\ call' = [call EXCEPT ![c] =
                  [Idle EXCEPT !.op = "create", !.pc = "lock",
                               !.player = hostId, !.game = game]]
    /\ calls' = calls + 1
    /\ UNCHANGED <<available, locked, lock, ledger, timers, result, others>>

(* createGame, lines 150-153: the host's stake is locked *)
createGameLock(c) ==
  /\ call[c].op = "create" /\ call[c].pc = "lock"
  /\ lockSucceeds(call[c].player, call[c].game.stakeAmount)
  /\ lockPlayerStake(call[c].player, call[c].game.stakeAmount)
  /\ Finish(c, TRUE, "")
  /\ UNCHANGED <<store, maxPlayers, timers, calls, others>>

(* createGame, lines 151, 155-158: the lock fails and createGame throws *)
createGameLockFails(c) ==
  /\ call[c].op = "create" /\ call[c].pc = "lock"
  /\ ~lockSucceeds(call[c].player, call[c].game.stakeAmount)
  /\ Finish(c, FALSE, "InsufficientFunds")
  /\ UNCHANGED <<store, maxPlayers, available, locked, lock, ledger, timers, calls, others>>

(* joinGame, lines 175-178: getGameById finds no game *)
joinGameNotFound(c) ==
  \E playerId \in Users :
    /\ Begin(c)
    /\ getGameById.status = "NONE"
    /\ Reject("join", playerId, "Game not found")

(* joinGame, lines 175-196: the game is read, the checks pass, the player is
   pushed onto the private copy *)
joinGame(c) ==
  \E playerId \in Users :
    LET game == getGameById IN
    /\ Begin(c)
    /\ game.status # "NONE"
    /\ canPlayerJoinGame(game, playerId)
    /\ checkPlayerEligibility(playerId, game.stakeAmount)
    /\ call' = [call EXCEPT ![c] =
                  [Idle EXCEPT !.op = "join", !.pc = "lock", !.player = playerId,
                               !.game = [game EXCEPT !.players = Append(@, playerId)]]]
    /\ calls' = calls + 1
    /\ UNCHANGED <<store, maxPlayers, available, locked, lock, ledger, timers, result, others>>

(* joinGame, line 199: the player's stake is locked *)
joinGameLock(c) ==
  /\ call[c].op = "join" /\ call[c].pc = "lock"
  /\ lockSucceeds(call[c].player, call[c].game.stakeAmount)
  /\ lockPlayerStake(call[c].player, call[c].game.stakeAmount)
  /\ call' = [call EXCEPT ![c].pc = "save"]
  /\ UNCHANGED <<store, maxPlayers, timers, calls, result, others>>

(* joinGame, lines 199, 211-214: the lock fails and joinGame throws *)
joinGameLockFails(c) ==
  /\ call[c].op = "join" /\ call[c].pc = "lock"
  /\ ~lockSucceeds(call[c].player, call[c].game.stakeAmount)
  /\ Finish(c, FALSE, "InsufficientFunds")
  /\ UNCHANGED <<store, maxPlayers, available, locked, lock, ledger, timers, calls, others>>

(* joinGame, lines 202-209: the copy is written back; a game that is ready
   gets a countdown timer (initiateGameStart, line 647) *)
joinGameSave(c) ==
  /\ call[c].op = "join" /\ call[c].pc = "save"
  /\ store' = call[c].game
  /\ timers' = IF isGameReadyToStart(call[c].game) THEN timers + 1 ELSE timers
  /\ Finish(c, TRUE, "")
  /\ UNCHANGED <<maxPlayers, available, locked, lock, ledger, calls, others>>

(* startGame, lines 230-238, run by a countdown timer: the game cannot be
   started *)
startGameRejected(c) ==
  /\ BeginTimer(c)
  /\ ~canStartGame(getGameById)
  /\ timers' = timers - 1
  /\ result' = [op |-> "start", player |-> "", ok |-> FALSE,
                error |-> "Game cannot be started"]
  /\ UNCHANGED <<store, maxPlayers, available, locked, lock, ledger, call, calls, others>>

(* startGame, lines 230-253, run by a countdown timer: the private copy is
   set up and marked IN_PROGRESS *)
startGame(c) ==
  LET game == getGameById IN
  /\ BeginTimer(c)
  /\ canStartGame(game)
  /\ timers' = timers - 1
  /\ call' = [call EXCEPT ![c] =
                [Idle EXCEPT !.op = "start", !.pc = "save",
                  !.game = [createInitialGameState(game) EXCEPT
                              !.board = "setup",
                              !.status = "IN_PROGRESS",
                              !.currentPlayer = determineFirstPlayer(game.players)]]]
  /\ UNCHANGED <<store, maxPlayers, available, locked, lock, ledger, calls, result, others>>

(* startGame, lines 256-264: the copy is written back *)
startGameSave(c) ==
  /\ call[c].op = "start" /\ call[c].pc = "save"
  /\ store' = call[c].game
  /\ Finish(c, TRUE, "")
  /\ UNCHANGED <<maxPlayers, available, locked, lock, ledger, timers, calls, others>>

(* processMove, lines 290-293: getGameById finds no game *)
processMoveNotFound(c) ==
  \E playerId \in Users :
    /\ Begin(c)
    /\ getGameById.status = "NONE"
    /\ Reject("move", playerId, "Game not found")

(* processMove, lines 290-341, no winner: the move is validated and the turn
   passes on the private copy *)
processMove(c) ==
  \E playerId \in Users :
    LET game == getGameById IN
    /\ Begin(c)
    /\ game.status # "NONE"
    /\ validateMove(game, playerId)
    /\ [hasWinner |-> FALSE, winner |-> ""] \in checkWinCondition(game)
    /\ call' = [call EXCEPT ![c] =
                  [Idle EXCEPT !.op = "move", !.pc = "save", !.player = playerId,
                     !.onTurn = (game.currentPlayer = playerId),
                     !.game = [game EXCEPT !.currentPlayer =
                                 getNextPlayer(game.players, playerId)]]]
    /\ calls' = calls + 1
    /\ UNCHANGED <<store, maxPlayers, available, locked, lock, ledger, timers, result, others>>

\* processMove setting game.winner without game.status = 'FINISHED'
processMoveWin_StatusKept(c) ==
  \E playerId \in Users :
    LET game == getGameById IN
    \E winCheck \in checkWinCondition(game) :
      /\ Begin(c)
      /\ game.status # "NONE"
      /\ validateMove(game, playerId)
      /\ winCheck.hasWinner
      /\ call' = [call EXCEPT ![c] =
                    [Idle EXCEPT !.op = "move", !.pc = "transfer",
                       !.player = playerId,
                       !.onTurn = (game.currentPlayer = playerId),
                       !.game = [game EXCEPT !.gamePhase = "FINISHED",
                                             !.winner = winCheck.winner]]]
      /\ calls' = calls + 1
      /\ UNCHANGED <<store, maxPlayers, available, locked, lock, ledger, timers,
                     result, others>>

(* processMove, lines 290-337, a winner: the private copy is marked FINISHED
   and distributePrizes is entered *)
processMoveWin(c) ==
  \E playerId \in Users :
    LET game == getGameById IN
    \E winCheck \in checkWinCondition(game) :
      /\ Begin(c)
      /\ game.status # "NONE"
        /\ validateMove(game, playerId)
      /\ winCheck.hasWinner
      /\ call' = [call EXCEPT ![c] =
                    [Idle EXCEPT !.op = "move", !.pc = "transfer",
                       !.player = playerId,
                       !.onTurn = (game.currentPlayer = playerId),
                       !.game = [game EXCEPT !.gamePhase = "FINISHED",
                                             !.status = "FINISHED",
                                             !.winner = winCheck.winner]]]
      /\ calls' = calls + 1
    /\ UNCHANGED <<store, maxPlayers, available, locked, lock, ledger, timers, result, others>>

(* distributePrizes called on a stored game, lines 374-378: no winner *)
distributePrizesNoWinner(c) ==
  /\ Begin(c)
  /\ getGameById.status # "NONE"
  /\ getGameById.winner = ""
  /\ Reject("settle", "", "No winner determined")

\* distributePrizes without the check of game.winner
distributePrizes_NoWinnerCheck(c) ==
  /\ Begin(c)
  /\ getGameById.status # "NONE"
  /\ call' = [call EXCEPT ![c] =
                [Idle EXCEPT !.op = "settle", !.pc = "transfer",
                             !.game = getGameById]]
  /\ calls' = calls + 1
  /\ UNCHANGED <<store, maxPlayers, available, locked, lock, ledger, timers, result, others>>

(* distributePrizes called on a stored game, lines 374-381 *)
distributePrizes(c) ==
  /\ Begin(c)
  /\ getGameById.status # "NONE"
  /\ getGameById.winner # ""
  /\ call' = [call EXCEPT ![c] =
                [Idle EXCEPT !.op = "settle", !.pc = "transfer",
                             !.game = getGameById]]
  /\ calls' = calls + 1
    /\ UNCHANGED <<store, maxPlayers, available, locked, lock, ledger, timers, result, others>>

(* distributePrizes, lines 383-386: the prize is credited to the winner *)
distributePrizesTransfer(c) ==
  LET prize == calculatePrizeDistribution(call[c].game)[1] IN
  /\ call[c].op \in {"move", "settle"} /\ call[c].pc = "transfer"
  /\ transferPrize(prize.playerId, prize.amount)
  /\ call' = [call EXCEPT ![c].pc = "release"]
  /\ UNCHANGED <<store, maxPlayers, timers, calls, result, others>>

(* distributePrizes, lines 388-395: the stakes locked for the game are
   released; a settlement called on its own ends here *)
distributePrizesRelease(c) ==
  /\ call[c].op \in {"move", "settle"} /\ call[c].pc = "release"
  /\ releaseAllStakes
  /\ IF call[c].op = "move"
     THEN call' = [call EXCEPT ![c].pc = "save"] /\ UNCHANGED result
     ELSE Finish(c, TRUE, "")
  /\ UNCHANGED <<store, maxPlayers, timers, calls, others>>

(* distributePrizes, lines 397-400 (and processMove, lines 357-360): a wallet
   operation fails, the error is rethrown and nothing more is done *)
distributePrizesFails(c) ==
  /\ call[c].op \in {"move", "settle"} /\ call[c].pc \in {"transfer", "release"}
  /\ Finish(c, FALSE, "TransientFault")
  /\ UNCHANGED <<store, maxPlayers, available, locked, lock, ledger, timers, calls, others>>

(* processMove, lines 304-319, 343-346: the move record, numbered
   moves.length + 1, is pushed and the copy is written back *)
processMoveSave(c) ==
  LET game == call[c].game
      move == [playerId |-> call[c].player, moveNumber |-> Len(game.moves) + 1]
  IN
  /\ call[c].op = "move" /\ call[c].pc = "save"
  /\ store' = [game EXCEPT !.moves = Append(@, move)]
  /\ Finish(c, TRUE, "")
  /\ UNCHANGED <<maxPlayers, available, locked, lock, ledger, timers, calls, others>>

Next ==
  \E c \in Slots :
    \/ createGameRejected(c)
    \/ createGame(c)
    \/ createGameLock(c)
    \/ createGameLockFails(c)
    \/ joinGameNotFound(c)
    \/ joinGame(c)
    \/ joinGameLock(c)
    \/ joinGameLockFails(c)
    \/ joinGameSave(c)
    \/ startGameRejected(c)
    \/ startGame(c)
    \/ startGameSave(c)
    \/ processMoveNotFound(c)
    \/ processMove(c)
    \/ processMoveWin(c)
    \/ distributePrizesNoWinner(c)
    \/ distributePrizes(c)
    \/ distributePrizesTransfer(c)
    \/ distributePrizesRelease(c)
    \/ distributePrizesFails(c)
    \/ processMoveSave(c)

Spec == Init /\ [][Next]_vars

\* a handler that has begun runs on to its return or throw
HandlerStep(c) ==
  \/ createGameLock(c)
  \/ createGameLockFails(c)
  \/ joinGameLock(c)
  \/ joinGameLockFails(c)
  \/ joinGameSave(c)
  \/ startGameSave(c)
  \/ distributePrizesTransfer(c)
  \/ distributePrizesRelease(c)
  \/ distributePrizesFails(c)
  \/ processMoveSave(c)

\* a pending countdown timer fires
TimerFires(c) == startGame(c) \/ startGameRejected(c)

\* the event loop runs every handler that has begun to its end and fires
\* every pending timer, and a wallet fault is transient: a wallet operation
\* tried again and again succeeds
FairSpec ==
  /\ Spec
  /\ \A c \in Slots :
       /\ WF_vars(HandlerStep(c))
       /\ WF_vars(TimerFires(c))
       /\ SF_vars(distributePrizesTransfer(c))
       /\ SF_vars(distributePrizesRelease(c))

----------------------------------------------------------------------------
(* Security middleware: RateLimiter, FraudDetectionMiddleware and the
   SecurityMiddlewareStack that runs them.  A request passes the stack as an
   async function; each Redis get and set is an await at which the other
   request may run, and each may throw (Redis does not answer). *)

\* the headers and URL of a request that the fraud score reads
Requests ==
  [userAgentLength : {9, 10}, acceptLanguage : BOOLEAN,
   acceptEncoding : BOOLEAN, suspiciousUrl : BOOLEAN]

\* the requests that arrive: one with every header in order, one with
\* nothing in order
RequestInputs ==
  {[userAgentLength |-> 10, acceptLanguage |-> TRUE, acceptEncoding |-> TRUE,
    suspiciousUrl |-> FALSE],
   [userAgentLength |-> 9, acceptLanguage |-> FALSE, acceptEncoding |-> FALSE,
    suspiciousUrl |-> TRUE]}

\* the score without Math.min(score, 100)
calculateSuspiciousScore_Unclamped(request, metrics) ==
  (IF metrics.requestCount > 100 THEN 30
   ELSE IF metrics.requestCount > 50 THEN 15 ELSE 0)
  + (IF metrics.failedAttempts > 10 THEN 40
     ELSE IF metrics.failedAttempts > 5 THEN 20 ELSE 0)
  + (IF request.userAgentLength < 10 THEN 20 ELSE 0)
  + (IF ~request.acceptLanguage THEN 10 ELSE 0)
  + (IF ~request.acceptEncoding THEN 10 ELSE 0)
  + (IF request.suspiciousUrl THEN 25 ELSE 0)

calculateSuspiciousScore(request, metrics) ==
  LET score ==
        (IF metrics.requestCount > 100 THEN 30
         ELSE IF metrics.requestCount > 50 THEN 15 ELSE 0)
        + (IF metrics.failedAttempts > 10 THEN 40
           ELSE IF metrics.failedAttempts > 5 THEN 20 ELSE 0)
        + (IF request.userAgentLength < 10 THEN 20 ELSE 0)
        + (IF ~request.acceptLanguage THEN 10 ELSE 0)
        + (IF ~request.acceptEncoding THEN 10 ELSE 0)
        + (IF request.suspiciousUrl THEN 25 ELSE 0)
  IN  IF score < 100 THEN score ELSE 100

\* the stack returns: a NextResponse of some stage, or { data, user }
Respond(r, status, by, ran) ==
  /\ req' = [req EXCEPT ![r] = IdleReq]
  /\ reply' = [status |-> status, by |-> by, ran |-> ran]

(* RateLimiter.createMiddleware, lines 738-741: a Redis command threw, the
   limiter returns null and the request goes on to fraud detection *)
rateLimitFailed(r) ==
  req' = [req EXCEPT ![r].stage = "fraudGet", ![r].current = NoEntry,
                     ![r].ran = IF req[r].stage = "rateLimitGet"
                                THEN Append(@, "rateLimit") ELSE @,
                     ![r].failed = @ \cup {"rateLimit"}]

\* a Redis command threw and fraud detection answers 500
fraudFailed_Rejects(r) ==
  /\ req' = [req EXCEPT ![r] = IdleReq]
  /\ reply' = [status |-> 500, by |-> "fraud",
               ran |-> IF req[r].stage = "fraudGet"
                       THEN Append(req[r].ran, "fraud") ELSE req[r].ran]

(* FraudDetectionMiddleware.createMiddleware, lines 1097-1100: a Redis
   command threw, fraud detection returns null and the request goes on to
   the CSRF check *)
fraudFailed(r) ==
  /\ req' = [req EXCEPT ![r].stage = "csrf", ![r].metrics = NoMetrics,
                        ![r].score = 0,
                        ![r].ran = IF req[r].stage = "fraudGet"
                                   THEN Append(@, "fraud") ELSE @,
                        ![r].failed = @ \cup {"fraud"}]
  /\ UNCHANGED reply

InitStack ==
  /\ GameInit
  /\ AuthQuiet
  /\ DbQuiet
  /\ LoginQuiet
  /\ GateQuiet
  /\ UserQuiet
  /\ now = 0
  /\ rl = NoEntry
  /\ rlGrants = [t \in ResetTimes |-> 0]
  /\ fraud \in {NoMetrics} \cup
               {[requestCount |-> m.requestCount,
                 failedAttempts |-> m.failedAttempts,
                 lastActivity |-> 0, stored |-> TRUE] : m \in FraudFound}
  /\ alerts = 0
  /\ req = [r \in Slots |-> IdleReq]
  /\ reqs = 0
  /\ reply = NoReply

(* time passes *)
Tick ==
  /\ now < MaxTicks * TickMs
  /\ now' = now + TickMs
  /\ UNCHANGED <<rl, rlGrants, fraud, alerts, req, reqs, reply, stackOthers>>

(* createStack, lines 1279-1284: a request enters the stack (logging keeps no
   state) *)
stackBegin(r) ==
  /\ reqs < MaxReqs
  /\ req[r].stage = "idle"
  /\ \A d \in Slots : d < r => req[d].stage # "idle"
  /\ req' = [req EXCEPT ![r].stage = "rateLimitGet"]
  /\ reqs' = reqs + 1
  /\ UNCHANGED <<now, rl, rlGrants, fraud, alerts, reply, stackOthers>>

(* RateLimiter.createMiddleware, line 696: redis.get answers *)
rateLimitGet(r) ==
  /\ req[r].stage = "rateLimitGet"
  /\ \E answers \in BOOLEAN :
       IF answers
       THEN req' = [req EXCEPT ![r].stage = "rateLimitDecide",
                               ![r].ran = Append(@, "rateLimit"),
                               ![r].current = rl]
       ELSE rateLimitFailed(r)
  /\ UNCHANGED <<now, rl, rlGrants, fraud, alerts, reqs, reply, stackOthers>>

\* the decision with the 429 answered and the request carried on all the same
rateLimitDecide_CarriesOn(r) ==
  LET current == req[r].current IN
  /\ req[r].stage = "rateLimitDecide"
  /\ IF current = NoEntry \/ now > current.resetTime
     THEN /\ req' = [req EXCEPT ![r].stage = "rateLimitSet",
                       ![r].current = [count |-> 1, resetTime |-> now + windowMs]]
          /\ UNCHANGED reply
     ELSE IF current.count >= maxRequests
     THEN /\ req' = [req EXCEPT ![r].stage = "fraudGet", ![r].current = NoEntry]
          /\ reply' = [status |-> 429, by |-> "rateLimit", ran |-> req[r].ran]
     ELSE /\ req' = [req EXCEPT ![r].stage = "rateLimitSet",
                       ![r].current = [count |-> current.count + 1,
                                       resetTime |-> current.resetTime]]
          /\ UNCHANGED reply
  /\ UNCHANGED <<now, rl, rlGrants, fraud, alerts, reqs, stackOthers>>

(* RateLimiter.createMiddleware, lines 697-734: the decision on the entry
   read: a new window, 429, or one more in the window *)
rateLimitDecide(r) ==
  LET current == req[r].current IN
  /\ req[r].stage = "rateLimitDecide"
  /\ IF current = NoEntry \/ now > current.resetTime
     THEN /\ req' = [req EXCEPT ![r].stage = "rateLimitSet",
                       ![r].current = [count |-> 1, resetTime |-> now + windowMs]]
          /\ UNCHANGED reply
     ELSE IF current.count >= maxRequests
     THEN Respond(r, 429, "rateLimit", req[r].ran)
     ELSE /\ req' = [req EXCEPT ![r].stage = "rateLimitSet",
                       ![r].current = [count |-> current.count + 1,
                                       resetTime |-> current.resetTime]]
          /\ UNCHANGED reply
  /\ UNCHANGED <<now, rl, rlGrants, fraud, alerts, reqs, stackOthers>>

(* RateLimiter.createMiddleware, lines 701-706, 731-736: redis.set answers and
   the request passes on *)
rateLimitSet(r) ==
  /\ req[r].stage = "rateLimitSet"
  /\ \E answers \in BOOLEAN :
       IF answers
       THEN /\ rl' = req[r].current
            /\ rlGrants' = [rlGrants EXCEPT ![req[r].current.resetTime] = @ + 1]
            /\ req' = [req EXCEPT ![r].stage = "fraudGet", ![r].current = NoEntry]
       ELSE /\ rateLimitFailed(r)
            /\ UNCHANGED <<rl, rlGrants>>
  /\ UNCHANGED <<now, fraud, alerts, reqs, reply, stackOthers>>

(* FraudDetectionMiddleware.createMiddleware, line 1058: redis.get answers *)
fraudGet(r) ==
  /\ req[r].stage = "fraudGet"
  /\ \E answers \in BOOLEAN :
       IF answers
       THEN /\ req' = [req EXCEPT ![r].stage = "fraudDecide",
                                  ![r].ran = Append(@, "fraud"),
                                  ![r].metrics = fraud]
            /\ UNCHANGED reply
       ELSE fraudFailed(r)
  /\ UNCHANGED <<now, rl, rlGrants, fraud, alerts, reqs, stackOthers>>

(* FraudDetectionMiddleware.createMiddleware, lines 1058-1078: the counters
   are reset after a minute, the request is counted and scored *)
fraudDecide(r) ==
  \E request \in RequestInputs :
    LET found   == IF req[r].metrics.stored THEN req[r].metrics
                   ELSE [NoMetrics EXCEPT !.lastActivity = now]
        reset   == IF now - found.lastActivity > 60000
                   THEN [found EXCEPT !.requestCount = 0, !.failedAttempts = 0]
                   ELSE found
        metrics == [reset EXCEPT !.requestCount = @ + 1, !.lastActivity = now,
                                 !.stored = TRUE]
        suspiciousScore == calculateSuspiciousScore(request, metrics)
    IN
    /\ req[r].stage = "fraudDecide"
    /\ req' = [req EXCEPT ![r].metrics = metrics,
                          ![r].score = suspiciousScore,
                          ![r].stage = IF suspiciousScore > suspiciousThreshold
                                       THEN "fraudFlag" ELSE "fraudSet"]
    /\ UNCHANGED <<now, rl, rlGrants, fraud, alerts, reqs, reply, stackOthers>>

(* FraudDetectionMiddleware.createMiddleware, lines 1079-1089: the alert is
   written and the request is blocked *)
fraudFlag(r) ==
  /\ req[r].stage = "fraudFlag"
  /\ \E answers \in BOOLEAN :
       IF answers
       THEN /\ alerts' = alerts + 1
            /\ Respond(r, 429, "fraud", req[r].ran)
       ELSE /\ fraudFailed(r)
            /\ UNCHANGED alerts
  /\ UNCHANGED <<now, rl, rlGrants, fraud, reqs, stackOthers>>

(* FraudDetectionMiddleware.createMiddleware, lines 1092-1095: the metrics are
   written and the request passes on *)
fraudSet(r) ==
  /\ req[r].stage = "fraudSet"
  /\ \E answers \in BOOLEAN :
       IF answers
       THEN /\ fraud' = req[r].metrics
            /\ req' = [req EXCEPT ![r].stage = "csrf", ![r].metrics = NoMetrics,
                                  ![r].score = 0]
            /\ UNCHANGED reply
       ELSE /\ fraudFailed(r)
            /\ UNCHANGED fraud
  /\ UNCHANGED <<now, rl, rlGrants, alerts, reqs, stackOthers>>

(* createStack, lines 1303-1306: the CSRF check *)
csrfCheck(r) ==
  \E passes \in BOOLEAN :
    /\ req[r].stage = "csrf"
    /\ IF passes
       THEN /\ req' = [req EXCEPT ![r].stage = "auth", ![r].ran = Append(@, "csrf")]
            /\ UNCHANGED reply
       ELSE Respond(r, 403, "csrf", Append(req[r].ran, "csrf"))
    /\ UNCHANGED <<now, rl, rlGrants, fraud, alerts, reqs, stackOthers>>

(* createStack, lines 1308-1314: authentication *)
authenticate(r) ==
  \E passes \in BOOLEAN :
    /\ req[r].stage = "auth"
    /\ IF passes
       THEN /\ req' = [req EXCEPT ![r].stage = "validate", ![r].ran = Append(@, "auth")]
            /\ UNCHANGED reply
       ELSE Respond(r, 401, "auth", Append(req[r].ran, "auth"))
    /\ UNCHANGED <<now, rl, rlGrants, fraud, alerts, reqs, stackOthers>>

(* createStack, lines 1316-1324: input validation, then { data, user } goes
   to the handler *)
validateInput(r) ==
  \E passes \in BOOLEAN :
    /\ req[r].stage = "validate"
    /\ IF passes
       THEN Respond(r, 200, "handle", Append(req[r].ran, "validate"))
       ELSE Respond(r, 400, "validate", Append(req[r].ran, "validate"))
    /\ UNCHANGED <<now, rl, rlGrants, fraud, alerts, reqs, stackOthers>>

NextStack ==
  \/ Tick
  \/ \E r \in Slots :
       \/ stackBegin(r)
       \/ rateLimitGet(r)
       \/ rateLimitDecide(r)
       \/ rateLimitSet(r)
       \/ fraudGet(r)
       \/ fraudDecide(r)
       \/ fraudFlag(r)
       \/ fraudSet(r)
       \/ csrfCheck(r)
       \/ authenticate(r)
       \/ validateInput(r)

SpecStack == InitStack /\ [][NextStack]_vars

----------------------------------------------------------------------------
(* AuthService (src/unnamed/part_004): registerUser and verifyOTP.  The
   database placeholders (checkExistingUser, createTempUser, storeOTPSession,
   getOTPSession, incrementOTPAttempts, markOTPVerified) are modelled by what
   their names say: a lookup of the users, a store of sessions by id, an
   increment and a flag set on the stored session.  The SMS and e-mail
   gateways are taken to accept every message.  One registration of a new
   user is followed, so that the two session ids are those of one session
   each. *)

\* lifetime of an OTP in minutes, and the attempts a session allows
OtpMinutes == 5
MaxOTPAttempts == 3

\* the method returns or throws
AuthFinish(c, ok, error) ==
  /\ auth' = [auth EXCEPT ![c] = IdleAuth]
  /\ authResult' = [call |-> authResult.call + 1, op |-> auth[c].op,
                    sessionId |-> auth[c].sessionId, otp |-> auth[c].otp,
                    mobile |-> auth[c].mobile, email |-> auth[c].email,
                    ok |-> ok, error |-> error]

\* the method throws before its first await on the store returns control
AuthReject(op, sessionId, otp, mobile, email, error) ==
  /\ authResult' = [call |-> authResult.call + 1, op |-> op,
                    sessionId |-> sessionId, otp |-> otp,
                    mobile |-> mobile, email |-> email,
                    ok |-> FALSE, error |-> error]
  /\ UNCHANGED auth

AuthBegin(c) ==
  /\ authCalls < MaxAuthCalls
  /\ auth[c].op = "idle"
  /\ \A d \in Slots : d < c => auth[d].op # "idle"
  /\ authCalls' = authCalls + 1

(* time passes *)
DatePasses ==
  /\ date < MaxDateSteps * DateStep
  /\ date' = date + DateStep
  /\ UNCHANGED <<sessions, accounts, auth, authCalls, authResult, wrongCompared,
                 authOthers>>

\* the checks with the check of expiresAt left out
verifyOTPOutcome_IgnoresExpiry(session, otp, today) ==
  IF ~session.exists THEN "OTP session expired or invalid"
  ELSE IF session.attempts >= MaxOTPAttempts THEN "Maximum OTP attempts exceeded"
  ELSE IF session.otp # otp THEN "Invalid OTP"
  ELSE ""

(* verifyOTP, lines 175-193: the checks on the session retrieved, in the
   order of the code; "" when the OTP is to be marked verified *)
verifyOTPOutcome(session, otp, today) ==
  IF ~session.exists \/ session.expiresAt < today
  THEN "OTP session expired or invalid"
  ELSE IF session.attempts >= MaxOTPAttempts THEN "Maximum OTP attempts exceeded"
  ELSE IF session.otp # otp THEN "Invalid OTP"
  ELSE ""

(* verifyOTP, lines 171-190: getOTPSession answers and the session is
   checked; the method throws, or goes on to incrementOTPAttempts or to
   markOTPVerified *)
verifyOTP(c) ==
  \E sessionId \in SessionIds, otp \in Otps :
    LET session == sessions[sessionId]
        outcome == verifyOTPOutcome(session, otp, date)
    IN
    /\ AuthBegin(c)
    /\ IF outcome \in {"OTP session expired or invalid",
                       "Maximum OTP attempts exceeded"}
       THEN /\ AuthReject("verify", sessionId, otp, "", "", outcome)
            /\ UNCHANGED wrongCompared
       ELSE /\ auth' = [auth EXCEPT ![c] =
                          [IdleAuth EXCEPT !.op = "verify", !.sessionId = sessionId,
                             !.otp = otp,
                             !.pc = IF outcome = "Invalid OTP" THEN "increment"
                                    ELSE "mark"]]
            /\ wrongCompared' =
                 [wrongCompared EXCEPT ![sessionId] =
                    IF outcome = "Invalid OTP" THEN @ + 1 ELSE @]
            /\ UNCHANGED authResult
    /\ UNCHANGED <<date, sessions, accounts, authOthers>>

(* verifyOTP, lines 186-187: incrementOTPAttempts answers, 'Invalid OTP' is
   thrown *)
incrementOTPAttempts(c) ==
  /\ auth[c].op = "verify" /\ auth[c].pc = "increment"
  /\ sessions' = [sessions EXCEPT ![auth[c].sessionId].attempts = @ + 1]
  /\ AuthFinish(c, FALSE, "Invalid OTP")
  /\ UNCHANGED <<date, accounts, authCalls, wrongCompared, authOthers>>

(* verifyOTP, lines 191-193: markOTPVerified answers, true is returned *)
markOTPVerified(c) ==
  /\ auth[c].op = "verify" /\ auth[c].pc = "mark"
  /\ sessions' = [sessions EXCEPT ![auth[c].sessionId].verified = TRUE]
  /\ AuthFinish(c, TRUE, "")
  /\ UNCHANGED <<date, accounts, authCalls, wrongCompared, authOthers>>

\* no user is ever found
checkExistingUser_FindsNone(mobile, email) ==
  FALSE

(* checkExistingUser, line 488: a user with this mobile or email *)
checkExistingUser(mobile, email) ==
  mobile \in ExistingMobiles \/ email \in ExistingEmails

\* a registration of a new user has got past the check or stored a session
RegistrationUnderWay ==
  \/ \E id \in SessionIds : sessions[id].exists
  \/ \E c \in Slots : auth[c].op = "register"
                       /\ ~checkExistingUser(auth[c].mobile, auth[c].email)

(* registerUser, lines 62-64: validateRegistrationData throws *)
registerUserInvalid(c) ==
  /\ AuthBegin(c)
  /\ AuthReject("register", "", "", "", "", "ValidationError")
  /\ UNCHANGED <<date, sessions, accounts, wrongCompared, authOthers>>

(* registerUser, lines 62-67: the data is valid, checkExistingUser is
   awaited *)
registerUser(c) ==
  \E mobile \in Mobiles, email \in Emails :
    /\ AuthBegin(c)
    /\ checkExistingUser(mobile, email) \/ ~RegistrationUnderWay
    /\ auth' = [auth EXCEPT ![c] =
                  [IdleAuth EXCEPT !.op = "register", !.pc = "check",
                                   !.mobile = mobile, !.email = email]]
    /\ UNCHANGED <<date, sessions, accounts, authResult, wrongCompared, authOthers>>

(* registerUser, lines 67-76: checkExistingUser answers; 'User already
   exists' is thrown, or the two OTPs are started *)
registerUserCheck(c) ==
  /\ auth[c].op = "register" /\ auth[c].pc = "check"
  /\ IF checkExistingUser(auth[c].mobile, auth[c].email)
     THEN AuthFinish(c, FALSE, "User already exists with this mobile or email")
     ELSE /\ auth' = [auth EXCEPT ![c].pc = "otp"]
          /\ UNCHANGED authResult
  /\ UNCHANGED <<date, sessions, accounts, authCalls, wrongCompared, authOthers>>

\* the OTPSession given to storeOTPSession
newSession(otp, today) ==
  [exists |-> TRUE, otp |-> otp, expiresAt |-> today + OtpMinutes,
   attempts |-> 0, verified |-> FALSE]

(* generateAndSendSMSOTP, lines 347-367: the session is stored, the SMS sent *)
generateAndSendSMSOTP(c) ==
  \E otp \in Otps :
    /\ auth[c].op = "register" /\ auth[c].pc = "otp"
    /\ "sms" \notin auth[c].done
    /\ sessions' = [sessions EXCEPT !["sms"] = newSession(otp, date)]
    /\ accounts' = [accounts EXCEPT !.otpSent = @ + 1]
    /\ auth' = [auth EXCEPT ![c].done = @ \cup {"sms"}]
    /\ UNCHANGED <<date, authCalls, authResult, wrongCompared, authOthers>>

(* generateAndSendEmailOTP, lines 369-389: the session is stored, the e-mail
   sent *)
generateAndSendEmailOTP(c) ==
  \E otp \in Otps :
    /\ auth[c].op = "register" /\ auth[c].pc = "otp"
    /\ "email" \notin auth[c].done
    /\ sessions' = [sessions EXCEPT !["email"] = newSession(otp, date)]
    /\ accounts' = [accounts EXCEPT !.otpSent = @ + 1]
    /\ auth' = [auth EXCEPT ![c].done = @ \cup {"email"}]
    /\ UNCHANGED <<date, authCalls, authResult, wrongCompared, authOthers>>

(* registerUser, lines 73-91: both OTPs are out, createTempUser answers and
   the registration returns *)
createTempUser(c) ==
  /\ auth[c].op = "register" /\ auth[c].pc = "otp"
  /\ auth[c].done = SessionIds
  /\ accounts' = [accounts EXCEPT !.tempUsers = @ + 1]
  /\ AuthFinish(c, TRUE, "")
  /\ UNCHANGED <<date, sessions, authCalls, wrongCompared, authOthers>>

NextAuth ==
  \/ DatePasses
  \/ \E c \in Slots :
       \/ verifyOTP(c)
       \/ incrementOTPAttempts(c)
       \/ markOTPVerified(c)
       \/ registerUserInvalid(c)
       \/ registerUser(c)
       \/ registerUserCheck(c)
       \/ generateAndSendSMSOTP(c)
       \/ generateAndSendEmailOTP(c)
       \/ createTempUser(c)

InitAuth == Init

SpecAuth == InitAuth /\ [][NextAuth]_vars

----------------------------------------------------------------------------
(* MigrationRunner (src/database.ts): runMigrations is awaited once by
   initializeDatabase at every start of the server.  PostgreSQL is taken to
   answer every statement; a statement fails only for what it says (an
   INSERT naming a column the table does not have, a key that exists), and a
   migration function may fail. *)

\* the columns of the tables, as their CREATE TABLE statements give them
TableColumns == [migrations |-> {"id", "executed_at"}]

(* DatabaseOperations.insert, lines 313-320: the columns of the INSERT are
   those of the row given, and id, created_at and updated_at *)
insertColumns(data) ==
  data \cup {"id", "created_at", "updated_at"}

(* DatabaseOperations.insert, lines 313-324, on the migrations table:
   PostgreSQL accepts the row *)
insertAccepted(table, data, id, rows) ==
  /\ insertColumns(data) \subseteq TableColumns[table]
  /\ id \notin rows

\* runMigration returns: the loop of runMigrations goes on, or the run ends
MigrationDone ==
  IF migrator.index < Len(Migrations)
  THEN /\ migrator' = [pc |-> "find", index |-> migrator.index + 1]
       /\ UNCHANGED migResult
  ELSE /\ migrator' = IdleMigrator
       /\ migResult' = [ok |-> TRUE, error |-> "", at |-> ""]

\* runMigration throws and with it runMigrations
MigrationAborts(error) ==
  /\ migrator' = IdleMigrator
  /\ migResult' = [ok |-> FALSE, error |-> error, at |-> Migrations[migrator.index]]

(* runMigrations, lines 474-478: a run begins *)
runMigrations ==
  /\ migRuns < MaxRuns
  /\ migrator.pc = "idle"
  /\ migRuns' = migRuns + 1
  /\ migrator' = [pc |-> "table", index |-> 0]
  /\ UNCHANGED <<schema, applied, migResult, txVars, dbOthers>>

(* createMigrationsTable, lines 497-508 *)
createMigrationsTable ==
  /\ migrator.pc = "table"
  /\ schema' = [schema EXCEPT !.migrationsTable = TRUE]
  /\ migrator' = [pc |-> "find", index |-> 1]
  /\ UNCHANGED <<applied, migRuns, migResult, txVars, dbOthers>>

(* runMigration, lines 510-513, 522-524: the migration is looked up in the
   migrations table and skipped when it is there *)
runMigration ==
  /\ migrator.pc = "find"
  /\ IF Migrations[migrator.index] \in schema.recorded
     THEN MigrationDone
     ELSE /\ migrator' = [migrator EXCEPT !.pc = "fn"]
          /\ UNCHANGED migResult
  /\ UNCHANGED <<schema, applied, migRuns, txVars, dbOthers>>

(* runMigration, lines 515, 518-520: the migration function runs, or fails *)
migrationFn ==
  \E succeeds \in BOOLEAN :
    LET name == Migrations[migrator.index] IN
    /\ migrator.pc = "fn"
    /\ IF succeeds
       THEN /\ schema' = [schema EXCEPT !.tables = @ \cup {name}]
            /\ applied' = [applied EXCEPT ![name] = @ + 1]
            /\ migrator' = [migrator EXCEPT !.pc = "insert"]
            /\ UNCHANGED migResult
       ELSE /\ MigrationAborts("migration failed")
            /\ UNCHANGED <<schema, applied>>
    /\ UNCHANGED <<migRuns, txVars, dbOthers>>

(* runMigration, lines 516-520: the migration is recorded, or the INSERT
   fails *)
runMigrationInsert ==
  LET name == Migrations[migrator.index] IN
  /\ migrator.pc = "insert"
  /\ IF insertAccepted("migrations", {"id"}, name, schema.recorded)
     THEN /\ schema' = [schema EXCEPT !.recorded = @ \cup {name}]
          /\ MigrationDone
     ELSE /\ MigrationAborts("insert failed")
          /\ UNCHANGED schema
  /\ UNCHANGED <<applied, migRuns, txVars, dbOthers>>

NextMigrate ==
  \/ runMigrations
  \/ createMigrationsTable
  \/ runMigration
  \/ migrationFn
  \/ runMigrationInsert

SpecMigrate == Init /\ [][NextMigrate]_vars

----------------------------------------------------------------------------
(* DatabaseOperations.transaction (src/database.ts, lines 284-308).  Every
   call has its own client from the pool; a statement sent on the client may
   fail (the connection is lost), the operations callback may throw. *)

(* transaction, lines 285-286: pool.connect gives a client, or throws *)
transaction(c) ==
  \E connects \in BOOLEAN :
    /\ txCount < MaxTx
    /\ tx[c].pc = "idle"
    /\ \A d \in Slots : d < c => tx[d].pc # "idle"
    /\ txCount' = txCount + 1
    /\ IF connects
       THEN /\ tx' = [tx EXCEPT ![c] = [IdleTx EXCEPT !.pc = "begin"]]
            /\ pool' = pool + 1
            /\ UNCHANGED txResult
       ELSE /\ txResult' = [IdleTx EXCEPT !.pc = "ended", !.threw = TRUE]
            /\ UNCHANGED <<tx, pool>>
    /\ UNCHANGED <<migVars, dbOthers>>

(* transaction, lines 288-290: BEGIN *)
transactionBegin(c) ==
  \E succeeds \in BOOLEAN :
    /\ tx[c].pc = "begin"
    /\ tx' = [tx EXCEPT ![c].log = Append(@, "BEGIN"),
                        ![c].pc = IF succeeds THEN "operations" ELSE "rollback"]
    /\ UNCHANGED <<txCount, txResult, pool, migVars, dbOthers>>

\* the callback's error is swallowed and the transaction committed
operations_CommitsAnyway(c) ==
  \E succeeds \in BOOLEAN :
    /\ tx[c].pc = "operations"
    /\ tx' = [tx EXCEPT ![c].callback = IF succeeds THEN "returned" ELSE "threw",
                        ![c].pc = "commit"]
    /\ UNCHANGED <<txCount, txResult, pool, migVars, dbOthers>>

(* transaction, line 292: the operations callback returns or throws *)
operations(c) ==
  \E succeeds \in BOOLEAN :
    /\ tx[c].pc = "operations"
    /\ tx' = [tx EXCEPT ![c].callback = IF succeeds THEN "returned" ELSE "threw",
                        ![c].pc = IF succeeds THEN "commit" ELSE "rollback"]
    /\ UNCHANGED <<txCount, txResult, pool, migVars, dbOthers>>

(* transaction, lines 294-297: COMMIT *)
transactionCommit(c) ==
  \E succeeds \in BOOLEAN :
    /\ tx[c].pc = "commit"
    /\ tx' = [tx EXCEPT ![c].log = Append(@, "COMMIT"),
                        ![c].pc = IF succeeds THEN "release" ELSE "rollback"]
    /\ UNCHANGED <<txCount, txResult, pool, migVars, dbOthers>>

(* transaction, lines 298-301: the catch sends ROLLBACK and throws (the error
   caught, or the one of ROLLBACK) *)
transactionRollback(c) ==
  /\ tx[c].pc = "rollback"
  /\ tx' = [tx EXCEPT ![c].log = Append(@, "ROLLBACK"),
                      ![c].threw = TRUE,
                      ![c].pc = "release"]
  /\ UNCHANGED <<txCount, txResult, pool, migVars, dbOthers>>

(* transaction, lines 302-304: the finally releases the client, and the call
   returns or throws *)
transactionRelease(c) ==
  /\ tx[c].pc = "release"
  /\ pool' = pool - 1
  /\ txResult' = [tx[c] EXCEPT !.pc = "ended", !.released = @ + 1]
  /\ tx' = [tx EXCEPT ![c] = IdleTx]
  /\ UNCHANGED <<txCount, migVars, dbOthers>>

NextTx ==
  \E c \in Slots :
    \/ transaction(c)
    \/ transactionBegin(c)
    \/ operations(c)
    \/ transactionCommit(c)
    \/ transactionRollback(c)
    \/ transactionRelease(c)

SpecTx == Init /\ [][NextTx]_vars

----------------------------------------------------------------------------
(* AuthService.loginUser (src/unnamed/part_004, lines 110-163).  The users
   are looked up in a table that holds one user for every combination of
   isActive, isVerified and twoFactorEnabled; findUserByIdentifier,
   verify2FACode, signJWT, storeSession and updateLastLogin are placeholders
   in the source and are modelled by what their names say. *)

\* the users findUserByIdentifier can find, the passwords and 2FA codes
\* submitted ("" when no code is given)
LoginUsers ==
  [found : {TRUE}, isActive : BOOLEAN, isVerified : BOOLEAN,
   twoFactorEnabled : BOOLEAN]
Passwords == {"right", "wrong"}
RightPassword == "right"
TwoFactorCodes == {"", "246810", "000000"}
ValidTwoFactorCode == "246810"

\* the checks without the one of isActive and isVerified
loginChecks_StatusIgnored(user, password, twoFactorCode) ==
  IF ~user.found THEN "Invalid credentials"
  ELSE IF password # RightPassword THEN "Invalid credentials"
  ELSE IF user.twoFactorEnabled /\ twoFactorCode = "" THEN "2FA code required"
  ELSE IF user.twoFactorEnabled /\ twoFactorCode # ValidTwoFactorCode
       THEN "Invalid 2FA code"
  ELSE ""

(* loginUser, lines 117-144: the checks in the order of the code; "" when
   all of them pass *)
loginChecks(user, password, twoFactorCode) ==
  IF ~user.found THEN "Invalid credentials"
  ELSE IF password # RightPassword THEN "Invalid credentials"
  ELSE IF ~user.isActive \/ ~user.isVerified
       THEN "Account not verified or deactivated"
  ELSE IF user.twoFactorEnabled /\ twoFactorCode = "" THEN "2FA code required"
  ELSE IF user.twoFactorEnabled /\ twoFactorCode # ValidTwoFactorCode
       THEN "Invalid 2FA code"
  ELSE ""

\* loginUser returns or throws
LoginFinish(c, ok, error) ==
  /\ loginResult' = [call |-> loginResult.call + 1, input |-> login[c],
                     ok |-> ok, error |-> error]
  /\ login' = [login EXCEPT ![c] = IdleLogin]

(* loginUser, lines 110-117: the call, findUserByIdentifier is awaited *)
loginUser(c) ==
  \E user \in LoginUsers \cup {NoUser}, password \in Passwords,
     twoFactorCode \in TwoFactorCodes :
    /\ loginCalls < MaxLogins
    /\ login[c].pc = "idle"
    /\ \A d \in Slots : d < c => login[d].pc # "idle"
    /\ loginCalls' = loginCalls + 1
    /\ login' = [login EXCEPT ![c] =
                   [IdleLogin EXCEPT !.pc = "checks", !.user = user,
                      !.password = password, !.twoFactorCode = twoFactorCode]]
    /\ UNCHANGED <<loginResult, issued, loginOthers>>

(* loginUser, lines 117-144: the user, the password, the status and the 2FA
   code are checked; the first check that fails throws *)
loginUserChecks(c) ==
  LET error == loginChecks(login[c].user, login[c].password,
                           login[c].twoFactorCode) IN
  /\ login[c].pc = "checks"
  /\ IF error # ""
     THEN LoginFinish(c, FALSE, error)
     ELSE /\ login' = [login EXCEPT ![c].pc = "tokens"]
          /\ UNCHANGED loginResult
  /\ UNCHANGED <<loginCalls, issued, loginOthers>>

(* loginUser, line 147; generateAuthTokens, lines 207-223 *)
generateAuthTokens(c) ==
  /\ login[c].pc = "tokens"
  /\ issued' = [issued EXCEPT !.tokens = @ + 1]
  /\ login' = [login EXCEPT ![c].pc = "session", ![c].made = @ + 1]
  /\ UNCHANGED <<loginCalls, loginResult, loginOthers>>

(* loginUser, line 150; createLoginSession, lines 300-315 *)
createLoginSession(c) ==
  /\ login[c].pc = "session"
  /\ issued' = [issued EXCEPT !.sessions = @ + 1]
  /\ login' = [login EXCEPT ![c].pc = "lastLogin", ![c].made = @ + 1]
  /\ UNCHANGED <<loginCalls, loginResult, loginOthers>>

(* loginUser, lines 153-158: updateLastLogin, and the user and the tokens
   are returned *)
updateLastLogin(c) ==
  /\ login[c].pc = "lastLogin"
  /\ issued' = [issued EXCEPT !.lastLogins = @ + 1]
  /\ LoginFinish(c, TRUE, "")
  /\ UNCHANGED <<loginCalls, loginOthers>>

NextLogin ==
  \E c \in Slots :
    \/ loginUser(c)
    \/ loginUserChecks(c)
    \/ generateAuthTokens(c)
    \/ createLoginSession(c)
    \/ updateLastLogin(c)

SpecLogin == Init /\ [][NextLogin]_vars

----------------------------------------------------------------------------
(* AuthMiddleware (src/unnamed/part_001, lines 787-858): the middleware that
   createMiddleware(options) returns, called with one request. *)

(* AuthMiddleware.authenticate, lines 789-800: the header and the token;
   "" when validateUserSession is reached *)
tokenError(credential) ==
  IF credential.header # "bearer" THEN "AUTH_001"
  ELSE IF ~credential.tokenValid THEN "AUTH_002"
  ELSE ""

(* AuthMiddleware.createMiddleware, lines 831-845: the catch: 401 when
   authentication is required, { } otherwise *)
authenticationFailed(options) ==
  IF options.required THEN "401" ELSE "anonymous"

(* AuthMiddleware.createMiddleware, lines 816-829: the user is
   authenticated; 403 when userTypes is given and does not list the type *)
authenticated(options, credential) ==
  IF options.userTypesGiven /\ credential.userType \notin options.userTypes
  THEN "403" ELSE "user"

\* the middleware returns
GateReturns(returned) ==
  /\ gateResult' = [gate EXCEPT !.pc = "returned", !.returned = returned]
  /\ gate' = IdleGate

(* createMiddleware, lines 812-814; authenticate, lines 789-800: the request
   arrives, the header and the token are checked *)
authMiddleware ==
  \E options \in AuthOptions, credential \in Credentials :
    /\ gateCalls < MaxGateCalls
    /\ gate.pc = "idle"
    /\ options.userTypesGiven \/ options.userTypes = {}
    /\ gateCalls' = gateCalls + 1
    /\ IF tokenError(credential) # ""
       THEN /\ gateResult' = [pc |-> "returned", options |-> options,
                              credential |-> credential,
                              returned |-> authenticationFailed(options)]
            /\ UNCHANGED gate
       ELSE /\ gate' = [pc |-> "session", options |-> options,
                        credential |-> credential, returned |-> ""]
            /\ UNCHANGED gateResult
    /\ UNCHANGED gateOthers

(* authenticate, line 803; validateUserSession, lines 849-857; createMiddleware,
   lines 816-845: Redis answers with the session or without, and the
   middleware returns *)
validateUserSession ==
  /\ gate.pc = "session"
  /\ IF gate.credential.session
     THEN GateReturns(authenticated(gate.options, gate.credential))
     ELSE GateReturns(authenticationFailed(gate.options))
  /\ UNCHANGED <<gateCalls, gateOthers>>

NextGate ==
  \/ authMiddleware
  \/ validateUserSession

SpecGate == Init /\ [][NextGate]_vars

----------------------------------------------------------------------------
(* UserModel (src/User.ts).  getUserFromDatabase and updateUserInDatabase are
   placeholders in the source; they are modelled as what their names say: the
   one reads the user's record, the other overwrites the fields named in the
   updates.  One user, one call of UserModel at a time; updatedAt and the
   fields no method here reads are left out. *)

(* updateUserInDatabase, lines 605-609: the fields of updates replace those
   of the record *)
updateUserInDatabase(record, updates) ==
  [f \in DOMAIN record |->
     IF f \in DOMAIN updates THEN updates[f] ELSE record[f]]

(* calculateSkillLevel, lines 550-555 *)
calculateSkillLevel(rating) ==
  IF rating < 800 THEN "BEGINNER"
  ELSE IF rating < 1400 THEN "INTERMEDIATE"
  ELSE IF rating < 2000 THEN "ADVANCED"
  ELSE "PRO"

(* calculateLevel, lines 557-559: floor(sqrt(experience / 100)) + 1 *)
calculateLevel(experience) ==
  1 + CHOOSE n \in 0..experience :
        /\ n * n <= experience \div 100
        /\ (n + 1) * (n + 1) > experience \div 100

\* a call of UserModel begins
UserCallBegins ==
  /\ userCalls < MaxUserCalls
  /\ userCall.pc = "idle"
  /\ userCalls' = userCalls + 1

\* the write that ends a call
UserCallWrites ==
  /\ userRecord' = updateUserInDatabase(userRecord, userCall.updates)
  /\ userCall' = IdleUserCall
  /\ UNCHANGED <<userCalls, userOthers>>

(* update, lines 218-242: the data is validated, the current user read, a
   changed email or mobile resets its verified flag *)
update ==
  \E email \in UserEmails \cup {""}, mobile \in UserMobiles \cup {""} :
    /\ UserCallBegins
    /\ userCall' =
         [pc |-> "update",
          updates |->
            (IF email # "" THEN [email |-> email] ELSE <<>>)
            @@ (IF mobile # "" THEN [mobile |-> mobile] ELSE <<>>)
            @@ (IF email # "" /\ email # userRecord.email
                THEN [emailVerified |-> FALSE] ELSE <<>>)
            @@ (IF mobile # "" /\ mobile # userRecord.mobile
                THEN [mobileVerified |-> FALSE] ELSE <<>>)]
    /\ UNCHANGED <<userRecord, userOthers>>

(* update, lines 244-249: the update is written *)
updateWrite ==
  /\ userCall.pc = "update"
  /\ UserCallWrites

(* verifyEmail, lines 390-395 *)
verifyEmail ==
  /\ UserCallBegins
  /\ userRecord' = updateUserInDatabase(userRecord, [emailVerified |-> TRUE])
  /\ userCall' = [pc |-> "checkFullVerification", updates |-> <<>>]
  /\ UNCHANGED userOthers

(* verifyMobile, lines 407-412 *)
verifyMobile ==
  /\ UserCallBegins
  /\ userRecord' = updateUserInDatabase(userRecord, [mobileVerified |-> TRUE])
  /\ userCall' = [pc |-> "checkFullVerification", updates |-> <<>>]
  /\ UNCHANGED userOthers

(* checkFullVerification, lines 561-563: the user is read *)
checkFullVerification ==
  /\ userCall.pc = "checkFullVerification"
  /\ userCall' =
       IF userRecord.emailVerified /\ userRecord.mobileVerified /\ ~userRecord.isVerified
       THEN [pc |-> "isVerified", updates |-> [isVerified |-> TRUE]]
       ELSE IdleUserCall
  /\ UNCHANGED <<userRecord, userCalls, userOthers>>

(* checkFullVerification, lines 564-567: isVerified is written *)
checkFullVerificationWrite ==
  /\ userCall.pc = "isVerified"
  /\ UserCallWrites

(* updateGameStats, lines 335-361: the user is read and the new statistics
   calculated; the skill level is calculated only "if (updates.skillRating)" *)
updateGameStats ==
  \E gameResult \in GameResults :
    LET rating == userRecord.skillRating + gameResult.skillRatingChange
        skillRating == IF rating > 3000 THEN 3000
                       ELSE IF rating < 0 THEN 0 ELSE rating
        experience == userRecord.experience + (IF gameResult.won THEN 100 ELSE 50)
    IN /\ UserCallBegins
       /\ userCall' =
            [pc |-> "updateGameStats",
             updates |->
               [skillRating |-> skillRating, experience |-> experience,
                level |-> calculateLevel(experience)]
               @@ (IF skillRating # 0
                   THEN [skillLevel |-> calculateSkillLevel(skillRating)]
                   ELSE <<>>)]
       /\ UNCHANGED <<userRecord, userOthers>>

(* updateGameStats, line 363: the statistics are written *)
updateGameStatsWrite ==
  /\ userCall.pc = "updateGameStats"
  /\ UserCallWrites

NextUser ==
  \/ update
  \/ updateWrite
  \/ verifyEmail
  \/ verifyMobile
  \/ checkFullVerification
  \/ checkFullVerificationWrite
  \/ updateGameStats
  \/ updateGameStatsWrite

SpecUser == Init /\ [][NextUser]_vars

----------------------------------------------------------------------------
(* Properties *)

AllIdle == \A c \in Slots : call[c].op = "idle"

Participants(game) == {game.players[i] : i \in 1..Len(game.players)}

Terminal == {"FINISHED", "CANCELLED", "FORFEITED"}

\* the stored match lists every participant once, each with a stake lock
WellFormed ==
  /\ store.status # "NONE"
  /\ Cardinality(Participants(store)) = Len(store.players)
  /\ \A u \in Participants(store) : lock[u] # "none"

\* C1: settlement pays out at most once per match: one payout credit is
\* recorded however often settlement runs, and no more is released than was
\* locked.
C1_SettlesOnce ==
  WellFormed =>
    /\ ledger.payoutCount <= 1
    /\ ledger.releasedTotal <= ledger.lockedTotal

\* C2: partial settlement is never observable: once no handler is running,
\* either no payout was credited and no lock released, or the payout was
\* credited and no lock of the match is still held.
C2_NoPartialSettlement ==
  (WellFormed /\ AllIdle) =>
    \/ ledger.payoutCount = 0 /\ \A u \in Users : lock[u] # "released"
    \/ ledger.payoutCount >= 1 /\ \A u \in Users : lock[u] # "held"

\* C3: no value is created by a match: the payouts credited plus the locks
\* released never exceed the total locked for the match.
C3_NoValueCreated ==
  WellFormed =>
    ledger.payoutTotal + ledger.releasedTotal <= ledger.lockedTotal

\* C4: a participant is admitted only after the stake lock succeeded: once no
\* handler is running, every listed participant has had the stake locked.
C4_AdmittedOnlyLocked ==
  AllIdle => \A u \in Participants(store) : lock[u] # "none"

\* C5: once the stored status is terminal, no processMove and no joinGame is
\* accepted and the match record never changes again.
C5_TerminalImmutable ==
  [][(WellFormed /\ store.status \in Terminal) =>
       /\ store' = store
       /\ \A c \in Slots :
            call[c].op = "idle" => call'[c].op \notin {"move", "join"}]_vars

\* C6: the sequence numbers of the stored move log of a running match are
\* exactly 0, 1, 2, ... in log order.
C6_SequenceFromZero ==
  (WellFormed /\ store.status = "IN_PROGRESS") =>
    \A i \in 1..Len(store.moves) : store.moves[i].moveNumber = i - 1

\* C7: a move submitted to a running match by a player who is not the turn
\* holder changes nothing: when its handler ends, the stored match is as it
\* was.
C7_NotYourTurnRejected ==
  [][\A c \in Slots :
       ( /\ WellFormed
         /\ call[c].op = "move" /\ call'[c].op = "idle"
         /\ call[c].game.status = "IN_PROGRESS"
         /\ ~call[c].onTurn )
       => store' = store]_vars

\* C8: the status moves WAITING -> STARTING -> IN_PROGRESS only: STARTING is
\* entered exactly when the participant count reaches the capacity, and
\* IN_PROGRESS is entered only from STARTING.
C8_StatusForward ==
  [][(WellFormed /\ WellFormed') =>
     /\ (store'.status = "IN_PROGRESS" /\ store.status # "IN_PROGRESS")
          => store.status = "STARTING"
     /\ (store'.status = "STARTING" /\ store.status # "STARTING")
          => (store.status = "WAITING" /\ Len(store'.players) = maxPlayers)
     /\ (store.status = "WAITING" /\ Len(store.players) < maxPlayers
           /\ Len(store'.players) = maxPlayers)
          => store'.status = "STARTING"
     /\ store.status = "IN_PROGRESS"
          => store'.status \notin {"WAITING", "STARTING"}
     /\ store.status = "STARTING" => store'.status # "WAITING"]_vars

\* C9: once the match has left WAITING with every participant listed once
\* and holding a lock, the prize pool is the stakes locked less the fee; and
\* the pool of a match that has left WAITING never changes.
C9_PoolOfLockedStakes ==
  /\ []( ( /\ WellFormed /\ AllIdle /\ store.status = "IN_PROGRESS"
           /\ \A u \in Participants(store) : lock[u] = "held" )
         => store.prizePool =
              calculatePrizePool(store.stakeAmount,
                                 Cardinality({u \in Users : lock[u] = "held"})) )
  /\ [][store.status \notin {"NONE", "WAITING"}
          => store'.prizePool = store.prizePool]_vars

Settled ==
  /\ ledger.payoutCount >= 1
  /\ \A u \in Participants(store) : lock[u] = "released"

\* C11: once a move has decided the match (the outcome FINISHED with a winner
\* is set), settlement eventually completes: the winner is credited and every
\* lock is released, a failed settlement being retried.
C11_SettlementCompletes ==
  ( /\ WellFormed
    /\ \E c \in Slots : /\ call[c].op = "move"
                         /\ call[c].game.status = "FINISHED"
                         /\ call[c].game.winner # "" )
    ~> Settled

C13_LogAppendOnly ==
  [][(WellFormed /\ store.status = "IN_PROGRESS") =>
       /\ Len(store'.moves) >= Len(store.moves)
       /\ \A i \in 1..Len(store.moves) : store'.moves[i] = store.moves[i]]_vars

\* C14: the winner is set only at a terminal state: a match (the stored one
\* and every copy a handler works on) that is WAITING, STARTING or
\* IN_PROGRESS has no winner, and one with a winner is FINISHED or FORFEITED.
C14_WinnerOnlyTerminal ==
  \A game \in {store} \cup {call[c].game : c \in Slots} :
    /\ game.status \in {"WAITING", "STARTING", "IN_PROGRESS"} => game.winner = ""
    /\ game.winner # "" => game.status \in {"FINISHED", "FORFEITED"}

\* C14 witness: the stored match is FINISHED with its winner, a participant.
C14_Witness ==
  /\ WellFormed /\ AllIdle
  /\ store.status = "FINISHED"
  /\ store.winner \in Participants(store)
  /\ Len(store.moves) >= 1

\* C15: when the match enters IN_PROGRESS the turn holder is the host (the
\* first participant) and no move has been logged yet: the move log is empty,
\* so that the sequence starts from the beginning.
C15_StartState ==
  [][(WellFormed /\ store.status # "IN_PROGRESS" /\ store'.status = "IN_PROGRESS")
       => /\ store'.currentPlayer = store'.players[1]
          /\ store'.players[1] \in Hosts
          /\ store'.moves = <<>>]_vars

\* C16: participants are admitted only while the match is WAITING: a join
\* gets past its checks only when the stored status is WAITING.
C16_JoinOnlyWhileWaiting ==
  [][\A c \in Slots :
       (WellFormed /\ call[c].op = "idle" /\ call'[c].op = "join")
         => store.status = "WAITING"]_vars

\* C17: createGame accepts the stakes 10 and 2000 and rejects 9 and 2001 with
\* a validation error; a stored match has a stake within the bounds, and
\* the rejection creates no match, adds no participant and locks no stake.
C17_StakeBounds ==
  /\ [](\A n \in MaxPlayersInputs :
          /\ validateGameCreation(10, n) /\ validateGameCreation(2000, n)
          /\ ~validateGameCreation(9, n) /\ ~validateGameCreation(2001, n))
  /\ [](store.status # "NONE" => store.stakeAmount \in 10..2000)
  /\ [](store.status = "NONE" =>
          \A u \in Users : lock[u] = "none" /\ locked[u] = 0
                            /\ available[u] = InitBalance[u])
  /\ [][(result'.error = "ValidationError" /\ result' # result)
         => /\ ~result'.ok
            /\ UNCHANGED <<store, available, locked, lock, ledger, call>>]_vars

\* C17 witness: createGame has just been rejected with a validation error;
\* there is no match, nobody holds a lock.
C17_Witness ==
  /\ result.op = "create" /\ result.error = "ValidationError" /\ ~result.ok
  /\ store = NoGame /\ AllIdle
  /\ \A u \in Users : lock[u] = "none" /\ available[u] = InitBalance[u]

\* C18: joining is idempotent per user and match: after a user joined again,
\* the user is listed once and the stake is locked once.
C18_JoinIdempotent ==
  AllIdle =>
    /\ Cardinality(Participants(store)) = Len(store.players)
    /\ \A u \in Users : locked[u] \in {0, store.stakeAmount}

C20_InsufficientFundsNotAdmitted ==
  /\ \A u \in Users : available[u] >= 0 /\ locked[u] >= 0
  /\ (AllIdle /\ result.error = "InsufficientFunds")
       => /\ result.player \notin Participants(store)
          /\ locked[result.player] = 0
          /\ available[result.player]
               = InitBalance[result.player] + ledger.credited[result.player]

\* C21: a match still WAITING below its capacity does not wait for ever: it
\* fills up (or leaves WAITING), or the fill timeout cancels it, releasing
\* every stake lock collected so far without any payout.
C21_FillTimeoutCancels ==
  (WellFormed /\ store.status = "WAITING" /\ Len(store.players) < maxPlayers)
    ~> \/ /\ store.status = "CANCELLED"
          /\ \A u \in Users : lock[u] # "held"
          /\ ledger.payoutCount = 0
       \/ store.status \notin {"WAITING", "CANCELLED"}
       \/ Len(store.players) >= maxPlayers

\* C22: in a 1v1 match with a stake of 10 each, the winner is paid 16 and the
\* fee retained is 4 of the 20 staked.
C22_TenStakePayout ==
  ( /\ WellFormed /\ store.stakeAmount = 10 /\ maxPlayers = 2
    /\ Len(store.players) = 2 /\ ledger.lockedTotal = 20
    /\ ledger.payoutCount = 1 )
    => /\ ledger.payoutTotal = 16
       /\ ledger.lockedTotal - ledger.payoutTotal = 4

C24_AtMostMaxPerWindow ==
  \A t \in ResetTimes : rlGrants[t] <= maxRequests

IsPrefix(a, b) ==
  Len(a) <= Len(b) /\ \A i \in 1..Len(a) : a[i] = b[i]

\* the stages in the order the claim gives, and in the order of createStack
ClaimedOrder == <<"validate", "rateLimit", "fraud", "auth">>
StackOrder == <<"rateLimit", "fraud", "csrf", "auth", "validate">>

OfClaimedStages(x) == x \in {"validate", "rateLimit", "fraud", "auth"}

\* C28 as stated: the stages a request has run are, in order, validate,
\* rate-limit, fraud-check, authenticate.
C28_ClaimedStageOrder ==
  \A r \in Slots : IsPrefix(SelectSeq(req[r].ran, OfClaimedStages), ClaimedOrder)

FraudStages == {"fraudDecide", "fraudFlag", "fraudSet"}

\* C28 amended: the stages a request has run are, in order, rate-limit,
\* fraud-check, CSRF, authenticate, validate; the stage that returns the
\* terminal result is the last one that ran, the request ends with it, and
\* the rate-limit entry and the fraud metrics are written only by a request
\* that is in that stage.
C28_StackOrder ==
  /\ [](\A r \in Slots : IsPrefix(req[r].ran, StackOrder))
  /\ [](reply # NoReply =>
          /\ IsPrefix(reply.ran, StackOrder)
          /\ reply.by = "handle" => (reply.ran = StackOrder /\ reply.status = 200)
          /\ reply.by # "handle" => reply.ran[Len(reply.ran)] = reply.by)
  /\ [][reply' # reply =>
          \E r \in Slots : /\ req[r].stage # "idle" /\ req'[r].stage = "idle"
                           /\ reply'.ran \in {req[r].ran, Append(req[r].ran, reply'.by),
                                              Append(req[r].ran, "validate")}]_vars
  /\ [][(fraud' # fraud \/ alerts' # alerts) =>
          \E r \in Slots : /\ req[r].stage \in FraudStages
                           /\ req[r].ran = <<"rateLimit", "fraud">>]_vars
  /\ [][(rl' # rl \/ rlGrants' # rlGrants) =>
          \E r \in Slots : /\ req[r].stage = "rateLimitSet"
                           /\ req[r].ran = <<"rateLimit">>]_vars

\* C28 witness: a request was answered 429 by the rate limiter after running
\* that stage only; the fraud metrics hold the two requests let through.
C28_Witness ==
  /\ reply.status = 429 /\ reply.by = "rateLimit" /\ reply.ran = <<"rateLimit">>
  /\ rl.count = maxRequests
  /\ fraud.stored /\ fraud.requestCount = 2
  /\ \A r \in Slots : req[r].stage = "idle"

\* the metrics at the edges of the score's steps
EdgeMetrics ==
  [requestCount : {0, 50, 51, 100, 101}, failedAttempts : {0, 5, 6, 10, 11},
   lastActivity : {0}, stored : {TRUE}]

\* the score of every request under every metrics at the edges
ScoreInRange ==
  \A request \in Requests : \A metrics \in EdgeMetrics :
    calculateSuspiciousScore(request, metrics) \in 0..100

C25_AtMostThreeWrongGuesses ==
  \A id \in SessionIds :
    /\ wrongCompared[id] <= MaxOTPAttempts
    /\ sessions[id].attempts <= MaxOTPAttempts

Expired(session, today) == session.expiresAt < today

\* the session is one verifyOTP accepts a code on
Open(session, today) ==
  session.exists /\ ~Expired(session, today) /\ session.attempts < 3

\* C26: verifyOTP returns true and marks the session verified exactly when
\* the session it retrieved exists, has not expired, has fewer than 3
\* attempts and holds the submitted code; otherwise it throws and leaves the
\* verified flag alone, and a wrong code, and nothing else, adds one to the
\* attempts.
C26_VerifiedExactlyWhenValid ==
  [][ /\ \A c \in Slots :
           (auth[c].op = "idle" /\ auth'[c].op = "verify")
             => LET session == sessions[auth'[c].sessionId] IN
                /\ Open(session, date)
                /\ auth'[c].pc = "mark" <=> session.otp = auth'[c].otp
                /\ auth'[c].pc = "increment" <=> session.otp # auth'[c].otp
                /\ sessions' = sessions
      /\ (authResult' # authResult /\ authResult'.op = "verify"
          /\ \A c \in Slots : auth[c].op # "verify" \/ auth'[c] = auth[c])
             => /\ ~Open(sessions[authResult'.sessionId], date)
                /\ ~authResult'.ok
                /\ sessions' = sessions
      /\ \A c \in Slots :
           (auth[c].op = "verify" /\ auth'[c].op = "idle")
             => LET id == auth[c].sessionId IN
                /\ \A other \in SessionIds \ {id} : sessions'[other] = sessions[other]
                /\ IF auth[c].pc = "mark"
                   THEN /\ authResult'.ok
                        /\ sessions' = [sessions EXCEPT ![id].verified = TRUE]
                   ELSE /\ ~authResult'.ok /\ authResult'.error = "Invalid OTP"
                        /\ sessions' = [sessions EXCEPT ![id].attempts = @ + 1]
      /\ (authResult' # authResult /\ authResult'.op = "verify" /\ authResult'.ok)
             => \E c \in Slots : auth[c].op = "verify" /\ auth[c].pc = "mark"
                                  /\ auth'[c].op = "idle"
      /\ \A id \in SessionIds :
           (sessions[id].exists /\ sessions'[id] # sessions[id])
             => \E c \in Slots : /\ auth[c].op = "verify" /\ auth[c].sessionId = id
                                 /\ auth'[c].op = "idle" ]_vars

\* C26 witness: a session that has expired, with two wrong codes recorded on
\* it and not verified, has just refused a code as expired.
C26_Witness ==
  /\ authResult.op = "verify"
  /\ authResult.error = "OTP session expired or invalid"
  /\ LET session == sessions[authResult.sessionId] IN
       /\ session.exists /\ Expired(session, date)
       /\ session.otp = authResult.otp
       /\ session.attempts = 2 /\ ~session.verified
  /\ \E id \in SessionIds : sessions[id].verified /\ sessions[id].attempts = 0

C31_CapacityRespected ==
  store.status # "NONE" => Len(store.players) <= maxPlayers

\* C32: a match is started at most once: a startGame that ends after the
\* match has left WAITING is rejected and leaves the stored match (coins,
\* board, game state, turn holder) as it is.
C32_StartedOnce ==
  [][\A c \in Slots :
       (call[c].op = "start" /\ call'[c].op = "idle"
        /\ store.status \in {"IN_PROGRESS", "FINISHED"})
         => /\ store' = store
            /\ ~result'.ok]_vars

\* C33: over any number of runs of runMigrations each migration function
\* runs at most once.
C33_MigratesOnce ==
  \A m \in MigrationNames : applied[m] <= 1

Sent(log, statement) == \E i \in 1..Len(log) : log[i] = statement

\* C34: transaction sends COMMIT exactly when the operations callback
\* returned; when the callback threw it sends ROLLBACK, never COMMIT, and
\* throws; and a call that got a client has released it exactly once when it
\* ends, and never more than once before.
C34_CommitOrRollback ==
  /\ \A c \in Slots :
       /\ Sent(tx[c].log, "COMMIT") => tx[c].callback = "returned"
       /\ tx[c].released = 0
       /\ tx[c].pc = "release" =>
            /\ Sent(tx[c].log, "COMMIT") <=> tx[c].callback = "returned"
            /\ tx[c].callback = "threw" =>
                 Sent(tx[c].log, "ROLLBACK") /\ tx[c].threw
  /\ pool = Cardinality({c \in Slots : tx[c].pc # "idle"})
  /\ txResult.pc = "ended" =>
       /\ txResult.log # <<>> => txResult.released = 1
       /\ txResult.log = <<>> => txResult.released = 0 /\ txResult.threw
       /\ Sent(txResult.log, "COMMIT") <=> txResult.callback = "returned"
       /\ txResult.callback = "threw" =>
            /\ txResult.log = <<"BEGIN", "ROLLBACK">>
            /\ txResult.threw
       /\ ~txResult.threw => txResult.log = <<"BEGIN", "COMMIT">>

\* C34 witness: a call whose callback threw has ended: BEGIN and ROLLBACK
\* were sent, the error was thrown, the client is back in the pool while
\* another call still holds its own.
C34_Witness ==
  /\ txResult.pc = "ended" /\ txResult.callback = "threw"
  /\ txResult.log = <<"BEGIN", "ROLLBACK">>
  /\ txResult.threw /\ txResult.released = 1
  /\ pool = 1

\* the call is one of an existing, active and verified user with the right
\* password and, when two-factor is enabled, a valid 2FA code
Qualified(l) ==
  /\ l.user.found
  /\ l.password = RightPassword
  /\ l.user.isActive /\ l.user.isVerified
  /\ l.user.twoFactorEnabled => l.twoFactorCode = ValidTwoFactorCode

\* C35: loginUser generates tokens, creates a session and writes the
\* last-login time only for a qualified call; a call that fails a check
\* throws having done none of the three.
C35_LoginOnlyWhenQualified ==
  /\ [](\A c \in Slots :
          /\ login[c].pc \in {"tokens", "session", "lastLogin"} => Qualified(login[c])
          /\ login[c].made > 0 => Qualified(login[c]))
  /\ [][issued' # issued =>
          \E c \in Slots : /\ Qualified(login[c])
                           /\ login[c].pc \in {"tokens", "session", "lastLogin"}
                           /\ login'[c] # login[c]]_vars
  /\ [][loginResult' # loginResult =>
          /\ loginResult'.ok <=> Qualified(loginResult'.input)
          /\ loginResult'.ok => issued'.lastLogins = issued.lastLogins + 1
                                 /\ loginResult'.input.made = 2
          /\ ~loginResult'.ok => /\ issued' = issued
                                 /\ loginResult'.input.made = 0
                                 /\ loginResult'.error # ""]_vars

\* C35 witness: a login with the right password of an active, verified user
\* with two-factor enabled has just failed on a wrong 2FA code; no token, no
\* session and no last-login time exist.
C35_Witness ==
  /\ ~loginResult.ok /\ loginResult.error = "Invalid 2FA code"
  /\ loginResult.input.password = RightPassword
  /\ loginResult.input.user.isActive /\ loginResult.input.user.isVerified
  /\ loginResult.input.user.twoFactorEnabled
  /\ issued = [tokens |-> 0, sessions |-> 0, lastLogins |-> 0]

\* C36: when a Redis command of the rate limiter or of fraud detection
\* throws, the stage returns no response and writes nothing, and the request
\* goes on with the stage that follows (fraud detection after the rate
\* limiter, the CSRF check after fraud detection).
C36_StoreFailureLetsThrough ==
  /\ [][\A r \in Slots :
          req'[r].failed \ req[r].failed # {}
            => /\ UNCHANGED <<rl, rlGrants, fraud, alerts, reply>>
               /\ req'[r].stage = IF "fraud" \in req'[r].failed \ req[r].failed
                                  THEN "csrf" ELSE "fraudGet"
               /\ req'[r].ran = IF "fraud" \in req'[r].failed \ req[r].failed
                                THEN <<"rateLimit", "fraud">> ELSE <<"rateLimit">>]_vars
  /\ [](\A r \in Slots :
          /\ "rateLimit" \in req[r].failed =>
               req[r].stage \in FraudStages \cup {"fraudGet", "csrf", "auth", "validate"}
          /\ "fraud" \in req[r].failed => req[r].stage \in {"csrf", "auth", "validate"})
  /\ [][(reply' # reply /\ reply'.by \in {"rateLimit", "fraud"})
          => /\ reply'.status = 429
             /\ \E r \in Slots : /\ req[r].stage \in {"rateLimitDecide", "fraudFlag"}
                                 /\ req'[r].stage = "idle"
             /\ reply'.by = "fraud" => alerts' = alerts + 1]_vars
  /\ [][\A r \in Slots :
          (req[r].stage # "idle" /\ req'[r].stage = "idle" /\ req[r].failed # {})
            => /\ reply'.by \notin {"rateLimit"}
               /\ "fraud" \in req[r].failed => reply'.by \in {"csrf", "auth", "validate", "handle"}]_vars

\* C36 witness: a request for which Redis failed in the rate limiter and in
\* fraud detection has passed the CSRF check and authentication and is at
\* input validation.
C36_Witness ==
  \E r \in Slots :
    /\ req[r].stage = "validate"
    /\ req[r].failed = {"rateLimit", "fraud"}
    /\ req[r].ran = <<"rateLimit", "fraud", "csrf", "auth">>
    /\ rl = NoEntry /\ alerts = 0

\* the middleware let the request pass: it returned no error
Passed(g) == g.pc = "returned" /\ g.returned \in {"user", "anonymous"}

\* C37: with userTypes given, a request passes the authentication stage only
\* with a valid token and session of a user whose type is in userTypes,
\* whatever the option required.
C37_RestrictedStageNeedsUser ==
  (Passed(gateResult) /\ gateResult.options.userTypesGiven)
    => /\ gateResult.credential.header = "bearer"
       /\ gateResult.credential.tokenValid
       /\ gateResult.credential.session
       /\ gateResult.credential.userType \in gateResult.options.userTypes

\* C38: in every user state, isVerified implies emailVerified and
\* mobileVerified, across any sequence of verifyEmail, verifyMobile and
\* update calls, updates that change the email or the mobile included.
C38_VerifiedMeansBoth ==
  userRecord.isVerified => userRecord.emailVerified /\ userRecord.mobileVerified

\* C39: after any sequence of updateGameStats calls (each adds experience) the skillRating is
\* within 0..3000 and the stored skillLevel is the one the stored
\* skillRating determines, a rating driven down to exactly 0 included.
C39_LevelFollowsRating ==
  userRecord.experience > 0
    => /\ userRecord.skillRating \in 0..3000
       /\ userRecord.skillLevel = calculateSkillLevel(userRecord.skillRating)

====
